---- MODULE Spec2Model ----
(***************************************************************************)
(* denounce: a command-line remote control for a receiver with two TCP     *)
(* control surfaces, the text protocol (port 23) and HEOS (port 1255).     *)
(* The model is the Denon struct of src/src/main.rs with its operations,   *)
(* the serde decoding of the HEOS envelope of src/src/heos.rs, the reader  *)
(* thread of the interactive shell, and the device at the other end of     *)
(* each connection.                                                        *)
(***************************************************************************)
EXTENDS Integers, Sequences, FiniteSets, TLC

VARIABLES
    denon,      \* the Denon struct: host, text_session, heos_session
    conns,      \* every TcpStream ever connected, in order of creation
    readers,    \* every reader thread ever spawned by shell_helper
    pc,         \* where the foreground is: idle, gp_read, pu_read, shell
    op,         \* the operation running (or the last one that ran)
    stream,     \* the connection the running operation holds (0: none)
    oplog,      \* what the running/last operation did, in order
    gp,         \* result of the get_players call of this operation
    last,       \* result of the last finished operation
    nops,       \* operations started so far
    ndev        \* things the device has done so far (the next message id)

vars == <<denon, conns, readers, pc, op, stream, oplog, gp, last, nops, ndev>>

----------------------------------------------------------------------------
(* Bounds of the model. *)
MaxOps == 2
MaxDev == 2
MaxLines == 1

(* Program constants. *)
PortText == 23
PortHeos == 1255

DefaultHost == "192.168.0.209"

----------------------------------------------------------------------------
(* Option<T>: None is the empty sequence, Some(x) a one-element sequence. *)
NoneOpt == <<>>
Some(x) == <<x>>

(* Result<T>: the error kinds name where the eyre report comes from. *)
Ok(v) == [status |-> "ok", kind |-> "", value |-> v]
Err(k) == [status |-> "err", kind |-> k, value |-> <<>>]
NoResult == [status |-> "none", kind |-> "", value |-> <<>>]

(* A line as writeln! formats it: the format string, the values of {pid}   *)
(* and of the other placeholder, and the newline writeln! appends.         *)
Line(pre, pid, arg) == [pre |-> pre, pid |-> pid, arg |-> arg, nl |-> "\n"]
NoLine == [pre |-> "", pid |-> NoneOpt, arg |-> "", nl |-> ""]

(* A message of the device: a JSON envelope, or bytes that are no JSON.    *)
(* A connection's rx holds the ids of the messages received and not read   *)
(* yet, in order; what a message holds is drawn when it is first looked    *)
(* at, by the decoder or by a reader thread, since nothing depends on it   *)
(* before.                                                                 *)
Wire(kind, result, payload, pids) ==
    [id |-> 0, kind |-> kind, result |-> result, payload |-> payload, pids |-> pids]
NoMsg == Wire("none", "", "", <<>>)

Ev(ev, port, conn, line, msg) ==
    [ev |-> ev, port |-> port, conn |-> conn, line |-> line, msg |-> msg]

----------------------------------------------------------------------------
(* The Input enum and its protocol tokens. *)
Input ==
    {"CblSat", "MediaPlayer", "BluRay", "Game", "Aux1", "Aux2", "Phono",
     "TvAudio", "Tuner", "Usb", "Bluetooth", "InternetRadio", "Net"}

(* A to_protocol_name with the token of Aux1 on the arm of Aux2. *)
ToProtocolNameClash(self) ==
    CASE self = "CblSat" -> "CBLSAT"
      [] self = "MediaPlayer" -> "MPLAY"
      [] self = "BluRay" -> "BD"
      [] self = "Game" -> "GAME"
      [] self = "Aux1" -> "AUX1"
      [] self = "Aux2" -> "AUX1"
      [] self = "Phono" -> "PHONO"
      [] self = "TvAudio" -> "TV"
      [] self = "Tuner" -> "TUNER"
      [] self = "Usb" -> "USB"
      [] self = "Bluetooth" -> "BT"
      [] self = "InternetRadio" -> "IRADIO"
      [] self = "Net" -> "NET"

to_protocol_name(self) ==
    CASE self = "CblSat" -> "CBLSAT"
      [] self = "MediaPlayer" -> "MPLAY"
      [] self = "BluRay" -> "BD"
      [] self = "Game" -> "GAME"
      [] self = "Aux1" -> "AUX1"
      [] self = "Aux2" -> "AUX2"
      [] self = "Phono" -> "PHONO"
      [] self = "TvAudio" -> "TV"
      [] self = "Tuner" -> "TUNER"
      [] self = "Usb" -> "USB"
      [] self = "Bluetooth" -> "BT"
      [] self = "InternetRadio" -> "IRADIO"
      [] self = "Net" -> "NET"

(* The inputs the operations are driven with. *)
SomeInputs == {"MediaPlayer", "Net"}
SomeCommands == {"PW?"}
SomeUrls == {"http://x"}
SomePids == {NoneOpt, Some(5)}

(* What the device may send on a HEOS connection: envelopes with either    *)
(* result and with the payload a list of players (by pid), null, a string  *)
(* or absent, envelopes whose result is spelt with capitals, and bytes     *)
(* that are no JSON at all.                                                *)
HeosWire ==
    { Wire("json", "success", "list", <<7, 3>>),
      Wire("json", "success", "list", <<>>),
      Wire("json", "success", "null", <<>>),
      Wire("json", "success", "absent", <<>>),
      Wire("json", "fail", "absent", <<>>),
      Wire("json", "fail", "null", <<>>),
      Wire("json", "fail", "list", <<7>>),
      Wire("json", "fail", "string", <<>>),
      Wire("json", "Success", "list", <<7, 3>>),
      Wire("json", "SUCCESS", "null", <<>>),
      Wire("json", "FAIL", "list", <<7>>),
      Wire("json", "Fail", "null", <<>>),
      Wire("garbage", "", "", <<>>) }

----------------------------------------------------------------------------
(* TcpStream::connect((host, port)): a new connection, nothing received.   *)
(* peer: open, closed (the device shut its side: reads see EOF) or reset   *)
(* (reads and writes fail). partial: the head of rx is the rest of a       *)
(* message a decoder stopped in the middle of.                             *)
TcpStream(host, port) ==
    [host |-> host, port |-> port, peer |-> "open", rx |-> <<>>, partial |-> FALSE]

ReconnectText(d, cs, up) ==
    IF up
    THEN [ok |-> TRUE, d |-> [d EXCEPT !.text_session = Some(Len(cs) + 1)],
          cs |-> Append(cs, TcpStream(d.host, PortText)), conn |-> Len(cs) + 1,
          evs |-> <<Ev("connect", PortText, Len(cs) + 1, NoLine, NoMsg)>>]
    ELSE [ok |-> FALSE, d |-> [d EXCEPT !.text_session = NoneOpt], cs |-> cs,
          conn |-> 0,
          evs |-> <<Ev("connect_failed", PortText, 0, NoLine, NoMsg)>>]

ConnectTextRetry(d, cs, up) ==
    IF d.text_session = NoneOpt
    THEN IF up
         THEN [ok |-> TRUE, d |-> [d EXCEPT !.text_session = Some(Len(cs) + 1)],
               cs |-> Append(cs, TcpStream(d.host, PortText)), conn |-> Len(cs) + 1,
               evs |-> <<Ev("connect", PortText, Len(cs) + 1, NoLine, NoMsg)>>]
         ELSE [ok |-> FALSE, d |-> d, cs |-> cs, conn |-> 0,
               evs |-> <<Ev("connect_failed", PortText, 0, NoLine, NoMsg),
                         Ev("connect_failed", PortText, 0, NoLine, NoMsg)>>]
    ELSE [ok |-> TRUE, d |-> d, cs |-> cs, conn |-> d.text_session[1], evs |-> <<>>]

connect_text(d, cs, up) ==
    IF d.text_session = NoneOpt
    THEN IF up
         THEN [ok |-> TRUE, d |-> [d EXCEPT !.text_session = Some(Len(cs) + 1)],
               cs |-> Append(cs, TcpStream(d.host, PortText)), conn |-> Len(cs) + 1,
               evs |-> <<Ev("connect", PortText, Len(cs) + 1, NoLine, NoMsg)>>]
         ELSE [ok |-> FALSE, d |-> d, cs |-> cs, conn |-> 0,
               evs |-> <<Ev("connect_failed", PortText, 0, NoLine, NoMsg)>>]
    ELSE [ok |-> TRUE, d |-> d, cs |-> cs, conn |-> d.text_session[1], evs |-> <<>>]

connect_heos(d, cs, up) ==
    IF d.heos_session = NoneOpt
    THEN IF up
         THEN [ok |-> TRUE, d |-> [d EXCEPT !.heos_session = Some(Len(cs) + 1)],
               cs |-> Append(cs, TcpStream(d.host, PortHeos)), conn |-> Len(cs) + 1,
               evs |-> <<Ev("connect", PortHeos, Len(cs) + 1, NoLine, NoMsg)>>]
         ELSE [ok |-> FALSE, d |-> d, cs |-> cs, conn |-> 0,
               evs |-> <<Ev("connect_failed", PortHeos, 0, NoLine, NoMsg)>>]
    ELSE [ok |-> TRUE, d |-> d, cs |-> cs, conn |-> d.heos_session[1], evs |-> <<>>]

(* writeln!(stream, ...)?: fails with an io error once the peer has reset. *)
writeln(cs, c, line) ==
    IF cs[c].peer = "reset"
    THEN [ok |-> FALSE, evs |-> <<Ev("write_failed", cs[c].port, c, line, NoMsg)>>]
    ELSE [ok |-> TRUE, evs |-> <<Ev("write", cs[c].port, c, line, NoMsg)>>]

(* What an operation hands back: its result, the struct, the connections,  *)
(* the reader threads, what it did, and where the foreground goes next.    *)
Out(res, d, cs, rs, evs, next, c) ==
    [res |-> res, d |-> d, cs |-> cs, rs |-> rs, evs |-> evs, next |-> next,
     stream |-> c]

----------------------------------------------------------------------------
(* A select_input that sends the video-select prefix. *)
SelectInputAsVideo(d, cs, rs, up, input) ==
    LET c == connect_text(d, cs, up) IN
    IF ~c.ok
    THEN Out(Err("ConnectionError"), c.d, c.cs, rs, c.evs, "idle", 0)
    ELSE LET w == writeln(c.cs, c.conn, Line("SV{}", NoneOpt, to_protocol_name(input))) IN
         Out(IF w.ok THEN Ok(<<>>) ELSE Err("ConnectionError"),
             c.d, c.cs, rs, c.evs \o w.evs, "idle", 0)

(* select_input, video_select and the single-shot text and HEOS commands.  *)
select_input(d, cs, rs, up, input) ==
    LET c == connect_text(d, cs, up) IN
    IF ~c.ok
    THEN Out(Err("ConnectionError"), c.d, c.cs, rs, c.evs, "idle", 0)
    ELSE LET w == writeln(c.cs, c.conn, Line("SI{}", NoneOpt, to_protocol_name(input))) IN
         Out(IF w.ok THEN Ok(<<>>) ELSE Err("ConnectionError"),
             c.d, c.cs, rs, c.evs \o w.evs, "idle", 0)

video_select(d, cs, rs, up, input) ==
    LET c == connect_text(d, cs, up) IN
    IF ~c.ok
    THEN Out(Err("ConnectionError"), c.d, c.cs, rs, c.evs, "idle", 0)
    ELSE LET w == writeln(c.cs, c.conn, Line("SV{}", NoneOpt, to_protocol_name(input))) IN
         Out(IF w.ok THEN Ok(<<>>) ELSE Err("ConnectionError"),
             c.d, c.cs, rs, c.evs \o w.evs, "idle", 0)

----------------------------------------------------------------------------
(* The reader thread shell_helper spawns: a BufReader over a clone of the  *)
(* stream it was given, the delimiter it splits on, the number of chunks   *)
(* it has printed, and whether it has printed the empty chunk read_until   *)
(* yields at end of stream.                                                *)
Reader(c, split) ==
    [conn |-> c, split |-> split, status |-> "running", buf |-> <<>>,
     printed |-> 0, eof |-> FALSE]

(* A shell_helper that tails both the stream it was given and the text     *)
(* session, each with a thread of its own.                                 *)
ShellHelperTailsBoth(d, cs, rs, evs, c, split, tty, up) ==
    IF ~tty
    THEN [res |-> Err("ReadlineError"), d |-> d, cs |-> cs, rs |-> rs, evs |-> evs,
          next |-> "idle", stream |-> 0]
    ELSE LET t == connect_text(d, cs, up)
             sp == <<Ev("spawn", cs[c].port, c, NoLine, NoMsg)>>
         IN  IF ~t.ok
             THEN [res |-> Err("ConnectionError"), d |-> t.d, cs |-> t.cs,
                   rs |-> Append(rs, Reader(c, split)), evs |-> evs \o sp \o t.evs,
                   next |-> "idle", stream |-> 0]
             ELSE [res |-> NoResult, d |-> t.d, cs |-> t.cs,
                   rs |-> Append(Append(rs, Reader(c, split)), Reader(t.conn, split)),
                   evs |-> evs \o sp \o t.evs
                              \o <<Ev("spawn", PortText, t.conn, NoLine, NoMsg)>>,
                   next |-> "shell", stream |-> t.conn]

(* shell_helper up to its first prompt: the line editor and its printer    *)
(* (they fail without a terminal), the reader thread on a clone of the     *)
(* stream passed in, then the stream the foreground loop writes to: the    *)
(* text session, whichever stream was passed in. (try_clone, which fails   *)
(* only when the process is out of descriptors, is taken to succeed.)      *)
shell_helper(d, cs, rs, evs, c, split, tty, up) ==
    IF ~tty
    THEN Out(Err("ReadlineError"), d, cs, rs, evs, "idle", 0)
    ELSE LET rs1 == Append(rs, Reader(c, split))
             sp == <<Ev("spawn", cs[c].port, c, NoLine, NoMsg)>>
             t == connect_text(d, cs, up)
         IN  IF ~t.ok
             THEN Out(Err("ConnectionError"), t.d, t.cs, rs1, evs \o sp \o t.evs,
                      "idle", 0)
             ELSE Out(NoResult, t.d, t.cs, rs1, evs \o sp \o t.evs, "shell", t.conn)

text_command(d, cs, rs, up, command, tty) ==
    LET c == connect_text(d, cs, up) IN
    IF ~c.ok
    THEN Out(Err("ConnectionError"), c.d, c.cs, rs, c.evs, "idle", 0)
    ELSE IF command # NoneOpt
         THEN LET w == writeln(c.cs, c.conn, Line("{command}", NoneOpt, command[1])) IN
              Out(IF w.ok THEN Ok(<<>>) ELSE Err("ConnectionError"),
                  c.d, c.cs, rs, c.evs \o w.evs, "idle", 0)
         ELSE shell_helper(c.d, c.cs, rs, c.evs, c.conn, "\r", tty, up)

SubscribeLine == Line("heos://system/register_for_change_events?enable=on", NoneOpt, "")

(* A heos_command that registers for change events whenever it enters the  *)
(* interactive mode, whatever the subscribe flag says.                     *)
HeosCommandAlwaysSubscribes(d, cs, rs, upH, url, subscribe, tty, upT) ==
    LET c == connect_heos(d, cs, upH) IN
    IF ~c.ok
    THEN Out(Err("ConnectionError"), c.d, c.cs, rs, c.evs, "idle", 0)
    ELSE IF url # NoneOpt
         THEN LET w == writeln(c.cs, c.conn, Line("{url}", NoneOpt, url[1])) IN
              Out(IF w.ok THEN Ok(<<>>) ELSE Err("ConnectionError"),
                  c.d, c.cs, rs, c.evs \o w.evs, "idle", 0)
         ELSE LET w == writeln(c.cs, c.conn, SubscribeLine) IN
              IF ~w.ok
              THEN Out(Err("ConnectionError"), c.d, c.cs, rs, c.evs \o w.evs, "idle", 0)
              ELSE shell_helper(c.d, c.cs, rs, c.evs \o w.evs, c.conn, "\n", tty, upT)

heos_command(d, cs, rs, upH, url, subscribe, tty, upT) ==
    LET c == connect_heos(d, cs, upH) IN
    IF ~c.ok
    THEN Out(Err("ConnectionError"), c.d, c.cs, rs, c.evs, "idle", 0)
    ELSE IF url # NoneOpt
         THEN LET w == writeln(c.cs, c.conn, Line("{url}", NoneOpt, url[1])) IN
              Out(IF w.ok THEN Ok(<<>>) ELSE Err("ConnectionError"),
                  c.d, c.cs, rs, c.evs \o w.evs, "idle", 0)
         ELSE IF subscribe
              THEN LET w == writeln(c.cs, c.conn, SubscribeLine) IN
                   IF ~w.ok
                   THEN Out(Err("ConnectionError"), c.d, c.cs, rs, c.evs \o w.evs,
                            "idle", 0)
                   ELSE shell_helper(c.d, c.cs, rs, c.evs \o w.evs, c.conn, "\n",
                                     tty, upT)
              ELSE shell_helper(c.d, c.cs, rs, c.evs, c.conn, "\n", tty, upT)

(* A foreground loop that waits for the device's answer to each line it    *)
(* has written.                                                            *)
ShellLoopReadsReply(cs, c, rl, command) ==
    IF rl = "eof"
    THEN [res |-> Ok(<<>>), next |-> "idle",
          evs |-> <<Ev("readline_eof", 0, 0, NoLine, NoMsg)>>]
    ELSE IF rl = "error"
    THEN [res |-> Err("ReadlineError"), next |-> "idle",
          evs |-> <<Ev("readline_failed", 0, 0, NoLine, NoMsg)>>]
    ELSE LET w == writeln(cs, c, Line("{command}", NoneOpt, command)) IN
         [res |-> IF w.ok THEN NoResult ELSE Err("ConnectionError"),
          next |-> IF w.ok THEN "shell" ELSE "idle",
          evs |-> <<Ev("readline", 0, 0, Line("{command}", NoneOpt, command), NoMsg)>>
                     \o w.evs
                     \o (IF w.ok THEN <<Ev("read_failed", cs[c].port, c, NoLine, NoMsg)>>
                         ELSE <<>>)]

ShellLoopEofIsError(cs, c, rl, command) ==
    IF rl \in {"eof", "error"}
    THEN [res |-> Err("ReadlineError"), next |-> "idle",
          evs |-> <<Ev(IF rl = "eof" THEN "readline_eof" ELSE "readline_failed",
                       0, 0, NoLine, NoMsg)>>]
    ELSE LET w == writeln(cs, c, Line("{command}", NoneOpt, command)) IN
         [res |-> IF w.ok THEN NoResult ELSE Err("ConnectionError"),
          next |-> IF w.ok THEN "shell" ELSE "idle",
          evs |-> <<Ev("readline", 0, 0, Line("{command}", NoneOpt, command), NoMsg)>> \o w.evs]

(* One turn of the foreground loop of shell_helper: readline, then the     *)
(* line written to the stream. rl is what readline returned.               *)
shell_loop(cs, c, rl, command) ==
    IF rl = "eof"
    THEN [res |-> Ok(<<>>), next |-> "idle",
          evs |-> <<Ev("readline_eof", 0, 0, NoLine, NoMsg)>>]
    ELSE IF rl = "error"
    THEN [res |-> Err("ReadlineError"), next |-> "idle",
          evs |-> <<Ev("readline_failed", 0, 0, NoLine, NoMsg)>>]
    ELSE LET w == writeln(cs, c, Line("{command}", NoneOpt, command)) IN
         [res |-> IF w.ok THEN NoResult ELSE Err("ConnectionError"),
          next |-> IF w.ok THEN "shell" ELSE "idle",
          evs |-> <<Ev("readline", 0, 0, Line("{command}", NoneOpt, command), NoMsg)>> \o w.evs]

----------------------------------------------------------------------------
(* A HeosResult that takes the variant names in any letter case. *)
HeosResultAnyCase(s) ==
    CASE s \in {"success", "Success", "SUCCESS"} -> Some("Success")
      [] s \in {"fail", "Fail", "FAIL"} -> Some("Fail")
      [] OTHER -> NoneOpt

(* serde: the HeosResult enum under rename_all = "lowercase" accepts the   *)
(* two variant names in lower case and nothing else.                       *)
HeosResult(s) ==
    CASE s = "success" -> Some("Success")
      [] s = "fail" -> Some("Fail")
      [] OTHER -> NoneOpt

De(ok, kind, result, payload, whole) ==
    [ok |-> ok, kind |-> kind, result |-> result, payload |-> payload,
     whole |-> whole]

(* Response::<T>::deserialize on one message, T the payload type: "players"*)
(* for Vec<Player>, "unit" for (). Every field of Response is required, so *)
(* the payload is decoded with the envelope, before any caller looks at    *)
(* the result. whole: the decoder read the message to its closing brace    *)
(* (success, or a missing field noticed at the end of the object); else it *)
(* stopped inside the message.                                             *)
deserialize(m, T) ==
    IF m.kind # "json"
    THEN De(FALSE, "DecodeError", "", <<>>, FALSE)
    ELSE IF HeosResult(m.result) = NoneOpt
    THEN De(FALSE, "DecodeError", "", <<>>, FALSE)
    ELSE IF m.payload = "absent"
    THEN De(FALSE, "DecodeError", "", <<>>, TRUE)
    ELSE IF (T = "players" /\ m.payload = "list") \/ (T = "unit" /\ m.payload = "null")
    THEN De(TRUE, "", HeosResult(m.result)[1], m.pids, TRUE)
    ELSE De(FALSE, "DecodeError", "", <<>>, FALSE)

(* A blocking read has something to return. *)
CanRead(c) == c.rx # <<>> \/ c.peer # "open"

GreedyReadValue(c, T, m, drain) ==
    IF c.rx = <<>>
    THEN [de |-> De(FALSE, IF c.peer = "reset" THEN "ConnectionError" ELSE "DecodeError",
                    "", <<>>, TRUE),
          conn |-> c, msg |-> NoMsg, clean |-> FALSE]
    ELSE IF c.partial
    THEN [de |-> De(FALSE, "DecodeError", "", <<>>, drain),
          conn |-> [c EXCEPT !.rx = <<>>, !.partial = FALSE],
          msg |-> [m EXCEPT !.id = Head(c.rx)], clean |-> FALSE]
    ELSE [de |-> deserialize(m, T),
          conn |-> [c EXCEPT !.rx = <<>>],
          msg |-> [m EXCEPT !.id = Head(c.rx)], clean |-> TRUE]

(* serde_json::Deserializer::from_reader(session) decoding one value off   *)
(* connection c: bytes are taken from the socket one at a time, so nothing *)
(* behind the value is taken. After an error inside a message the rest of  *)
(* that message stays in the stream; a later decode starts in it, fails,   *)
(* and has used it up (drain) or not.                                      *)
read_value(c, T, m, drain) ==
    IF c.rx = <<>>
    THEN [de |-> De(FALSE, IF c.peer = "reset" THEN "ConnectionError" ELSE "DecodeError",
                    "", <<>>, TRUE),
          conn |-> c, msg |-> NoMsg, clean |-> FALSE]
    ELSE IF c.partial
    THEN [de |-> De(FALSE, "DecodeError", "", <<>>, drain),
          conn |-> IF drain THEN [c EXCEPT !.rx = Tail(c.rx), !.partial = FALSE] ELSE c,
          msg |-> [m EXCEPT !.id = Head(c.rx)], clean |-> FALSE]
    ELSE LET de == deserialize(m, T) IN
         [de |-> de,
          conn |-> IF de.whole THEN [c EXCEPT !.rx = Tail(c.rx)]
                   ELSE [c EXCEPT !.partial = TRUE],
          msg |-> [m EXCEPT !.id = Head(c.rx)], clean |-> TRUE]

GetPlayersLine == Line("heos://player/get_players", NoneOpt, "")
PlayStreamLine(pid, url) ==
    Line("heos://browse/play_stream?pid={pid}&url={url}", Some(pid), url)

(* get_players up to its read: the session, then the command. *)
get_players_send(d, cs, rs, evs, up) ==
    LET c == connect_heos(d, cs, up) IN
    IF ~c.ok
    THEN Out(Err("ConnectionError"), c.d, c.cs, rs, evs \o c.evs, "idle", 0)
    ELSE LET w == writeln(c.cs, c.conn, GetPlayersLine) IN
         IF ~w.ok
         THEN Out(Err("ConnectionError"), c.d, c.cs, rs, evs \o c.evs \o w.evs, "idle", 0)
         ELSE Out(NoResult, c.d, c.cs, rs, evs \o c.evs \o w.evs, "gp_read", c.conn)

GetPlayersUnchecked(de) ==
    IF ~de.ok THEN Err(de.kind) ELSE Ok(de.payload)

(* get_players after its read: the decode error, or the check of the       *)
(* result, or the payload.                                                 *)
get_players_reply(de) ==
    IF ~de.ok THEN Err(de.kind)
    ELSE IF de.result = "Fail" THEN Err("ProtocolError")
    ELSE Ok(de.payload)

(* A get_first_player_id that falls back to player 0 when the device       *)
(* lists none.                                                             *)
FirstPlayerOrDefault(g) ==
    IF g.status # "ok" THEN g
    ELSE IF g.value = <<>> THEN Ok(<<0>>)
    ELSE Ok(<<Head(g.value)>>)

FirstPlayerSorted(g) ==
    IF g.status # "ok" THEN g
    ELSE IF g.value = <<>> THEN Err("NotFoundError")
    ELSE Ok(<<CHOOSE p \in {g.value[i] : i \in 1..Len(g.value)} :
                 \A q \in {g.value[i] : i \in 1..Len(g.value)} : p <= q>>)

(* get_first_player_id applied to what get_players returned. *)
get_first_player_id(g) ==
    IF g.status # "ok" THEN g
    ELSE IF g.value = <<>> THEN Err("NotFoundError")
    ELSE Ok(<<Head(g.value)>>)

(* play_url from the pid on, up to its read. *)
play_stream_send(d, cs, rs, evs, up, pid, url) ==
    LET c == connect_heos(d, cs, up) IN
    IF ~c.ok
    THEN Out(Err("ConnectionError"), c.d, c.cs, rs, evs \o c.evs, "idle", 0)
    ELSE LET w == writeln(c.cs, c.conn, PlayStreamLine(pid, url)) IN
         IF ~w.ok
         THEN Out(Err("ConnectionError"), c.d, c.cs, rs, evs \o c.evs \o w.evs, "idle", 0)
         ELSE Out(NoResult, c.d, c.cs, rs, evs \o c.evs \o w.evs, "pu_read", c.conn)

(* play_url up to its first read. *)
play_url(d, cs, rs, up, pid, url) ==
    IF pid # NoneOpt
    THEN play_stream_send(d, cs, rs, <<>>, up, pid[1], url)
    ELSE get_players_send(d, cs, rs, <<>>, up)

PlayUrlUnchecked(de) ==
    IF ~de.ok THEN Err(de.kind) ELSE Ok(<<>>)

(* play_url after its read. *)
play_url_reply(de) ==
    IF ~de.ok THEN Err(de.kind)
    ELSE IF de.result = "Fail" THEN Err("ProtocolError")
    ELSE Ok(<<>>)

----------------------------------------------------------------------------
(* One turn of the reader thread's loop: read_until(split) through the     *)
(* BufReader, then the chunk printed. The BufReader takes whatever the     *)
(* socket has into its buffer. At end of stream read_until returns Ok(0)   *)
(* and the empty chunk is printed; a read error or a chunk that is no      *)
(* UTF-8 (or that the printer fails to take) ends the thread.              *)
reader_print(r, buf, utf8) ==
    IF ~utf8
    THEN [r EXCEPT !.status = "failed", !.buf = <<>>]
    ELSE [r EXCEPT !.printed = @ + 1, !.buf = Tail(buf)]

reader_loop(r, c, utf8) ==
    IF r.buf # <<>>
    THEN [r |-> reader_print(r, r.buf, utf8), c |-> c]
    ELSE IF c.rx # <<>>
    THEN [r |-> reader_print(r, c.rx, utf8),
          c |-> [c EXCEPT !.rx = <<>>, !.partial = FALSE]]
    ELSE IF c.peer = "reset"
    THEN [r |-> [r EXCEPT !.status = "failed"], c |-> c]
    ELSE [r |-> [r EXCEPT !.eof = TRUE], c |-> c]

----------------------------------------------------------------------------
OpRec(name, pid, arg, subscribe) ==
    [name |-> name, pid |-> pid, arg |-> arg, subscribe |-> subscribe]

(* Denon::with_host(host), before any command. *)
Init ==
    /\ denon = [host |-> DefaultHost, text_session |-> NoneOpt, heos_session |-> NoneOpt]
    /\ conns = <<>>
    /\ readers = <<>>
    /\ pc = "idle"
    /\ op = OpRec("none", NoneOpt, NoneOpt, FALSE)
    /\ stream = 0
    /\ oplog = <<>>
    /\ gp = NoResult
    /\ last = NoResult
    /\ nops = 0
    /\ ndev = 0

(* An operation is called: it runs to its end or to its first blocking     *)
(* read or prompt.                                                         *)
Begin(o, out) ==
    /\ denon' = out.d
    /\ conns' = out.cs
    /\ readers' = out.rs
    /\ pc' = out.next
    /\ op' = o
    /\ stream' = out.stream
    /\ oplog' = out.evs
    /\ gp' = IF o.name \in {"get_players", "get_first_player_id"}
                  \/ (o.name = "play_url" /\ o.pid = NoneOpt)
               THEN out.res ELSE NoResult
    /\ last' = out.res
    /\ nops' = nops + 1
    /\ UNCHANGED ndev

CanBegin == pc = "idle" /\ nops < MaxOps

SelectInput ==
    /\ CanBegin
    /\ \E input \in SomeInputs, up \in BOOLEAN :
          Begin(OpRec("select_input", NoneOpt, Some(input), FALSE),
                select_input(denon, conns, readers, up, input))

VideoSelect ==
    /\ CanBegin
    /\ \E input \in SomeInputs, up \in BOOLEAN :
          Begin(OpRec("video_select", NoneOpt, Some(input), FALSE),
                video_select(denon, conns, readers, up, input))

TextCommand ==
    /\ CanBegin
    /\ \E command \in {NoneOpt} \cup {Some(x) : x \in SomeCommands},
          up \in BOOLEAN, tty \in BOOLEAN :
          Begin(OpRec("text_command", NoneOpt, command, FALSE),
                text_command(denon, conns, readers, up, command, tty))

HeosCommand ==
    /\ CanBegin
    /\ \E url \in {NoneOpt} \cup {Some(x) : x \in SomeUrls}, subscribe \in BOOLEAN,
          upH \in BOOLEAN, upT \in BOOLEAN, tty \in BOOLEAN :
          Begin(OpRec("heos_command", NoneOpt, url, subscribe),
                heos_command(denon, conns, readers, upH, url, subscribe, tty, upT))

GetPlayers ==
    /\ CanBegin
    /\ \E up \in BOOLEAN :
          Begin(OpRec("get_players", NoneOpt, NoneOpt, FALSE),
                get_players_send(denon, conns, readers, <<>>, up))

GetFirstPlayerId ==
    /\ CanBegin
    /\ \E up \in BOOLEAN :
          Begin(OpRec("get_first_player_id", NoneOpt, NoneOpt, FALSE),
                get_players_send(denon, conns, readers, <<>>, up))

PlayUrl ==
    /\ CanBegin
    /\ \E pid \in SomePids, url \in SomeUrls, up \in BOOLEAN :
          Begin(OpRec("play_url", pid, Some(url), FALSE),
                play_url(denon, conns, readers, up, pid, url))

ReadEv(c, rd) ==
    Ev(IF rd.msg = NoMsg THEN "read_failed" ELSE IF rd.clean THEN "read" ELSE "read_rest",
       conns[c].port, c, NoLine, rd.msg)

(* get_players gets its reply; get_first_player_id and play_url go on      *)
(* from what it returned.                                                  *)
GpRead ==
    /\ pc = "gp_read"
    /\ CanRead(conns[stream])
    /\ \E m \in HeosWire, drain \in BOOLEAN :
          LET rd == read_value(conns[stream], "players", m, drain)
              cs1 == [conns EXCEPT ![stream] = rd.conn]
              log1 == Append(oplog, ReadEv(stream, rd))
              g == get_players_reply(rd.de)
              f == get_first_player_id(g)
              s == play_stream_send(denon, cs1, readers, log1, TRUE, f.value[1], op.arg[1])
          IN  /\ gp' = g
              /\ IF op.name = "play_url" /\ f.status = "ok"
                 THEN /\ denon' = s.d /\ conns' = s.cs /\ oplog' = s.evs
                      /\ pc' = s.next /\ stream' = s.stream /\ last' = s.res
                 ELSE /\ conns' = cs1 /\ oplog' = log1 /\ pc' = "idle" /\ stream' = 0
                      /\ last' = IF op.name = "get_players" THEN g ELSE f
                      /\ UNCHANGED denon
    /\ UNCHANGED <<readers, op, nops, ndev>>

(* play_url gets its reply. *)
PuRead ==
    /\ pc = "pu_read"
    /\ CanRead(conns[stream])
    /\ \E m \in HeosWire, drain \in BOOLEAN :
          LET rd == read_value(conns[stream], "unit", m, drain) IN
          /\ conns' = [conns EXCEPT ![stream] = rd.conn]
          /\ oplog' = Append(oplog, ReadEv(stream, rd))
          /\ last' = play_url_reply(rd.de)
    /\ pc' = "idle"
    /\ stream' = 0
    /\ UNCHANGED <<denon, readers, op, gp, nops, ndev>>

(* A foreground loop that joins the reader thread: once the thread has     *)
(* failed, the next turn returns its error.                                *)
ShellLoopJoinsReader ==
    /\ pc = "shell"
    /\ \E rl \in {"line", "eof", "error"}, command \in SomeCommands :
          /\ rl = "line" => Cardinality({i \in 1..Len(oplog) : oplog[i].ev = "readline"}) < MaxLines
          /\ LET t == shell_loop(conns, stream, rl, command)
                 dead == \E i \in 1..Len(readers) : readers[i].status = "failed"
             IN
             /\ oplog' = oplog \o t.evs
             /\ last' = IF dead THEN Err("ReaderError") ELSE t.res
             /\ pc' = IF dead THEN "idle" ELSE t.next
             /\ stream' = IF ~dead /\ t.next = "shell" THEN stream ELSE 0
    /\ UNCHANGED <<denon, conns, readers, op, gp, nops, ndev>>

(* The foreground loop of the interactive shell takes one turn. *)
ShellLoop ==
    /\ pc = "shell"
    /\ \E rl \in {"line", "eof", "error"}, command \in SomeCommands :
          /\ rl = "line" => Cardinality({i \in 1..Len(oplog) : oplog[i].ev = "readline"}) < MaxLines
          /\ LET t == shell_loop(conns, stream, rl, command) IN
             /\ oplog' = oplog \o t.evs
             /\ last' = t.res
             /\ pc' = t.next
             /\ stream' = IF t.next = "shell" THEN stream ELSE 0
    /\ UNCHANGED <<denon, conns, readers, op, gp, nops, ndev>>

(* A reader thread takes one turn of its loop. *)
ReaderLoop ==
    \E i \in 1..Len(readers) :
       LET r == readers[i]
           c == conns[r.conn]
       IN  /\ r.status = "running"
           /\ r.buf # <<>> \/ CanRead(c)
           /\ \E utf8 \in BOOLEAN :
                 LET t == reader_loop(r, c, utf8) IN
                 /\ readers' = [readers EXCEPT ![i] = t.r]
                 /\ conns' = [conns EXCEPT ![r.conn] = t.c]
           /\ UNCHANGED <<denon, pc, op, stream, oplog, gp, last, nops, ndev>>

(* The device sends a message on a connection, shuts its side of it, or    *)
(* resets it (what was not read yet is lost).                              *)
DeviceSend ==
    /\ ndev < MaxDev
    /\ \E c \in 1..Len(conns) :
          /\ conns[c].peer = "open"
          /\ conns' = [conns EXCEPT ![c].rx = Append(@, ndev + 1)]
    /\ ndev' = ndev + 1
    /\ UNCHANGED <<denon, readers, pc, op, stream, oplog, gp, last, nops>>

DeviceClose ==
    /\ ndev < MaxDev
    /\ \E c \in 1..Len(conns) :
          /\ conns[c].peer = "open"
          /\ conns' = [conns EXCEPT ![c].peer = "closed"]
    /\ ndev' = ndev + 1
    /\ UNCHANGED <<denon, readers, pc, op, stream, oplog, gp, last, nops>>

DeviceReset ==
    /\ ndev < MaxDev
    /\ \E c \in 1..Len(conns) :
          /\ conns[c].peer # "reset"
          /\ conns' = [conns EXCEPT ![c].peer = "reset", ![c].rx = <<>>,
                                    ![c].partial = FALSE]
    /\ ndev' = ndev + 1
    /\ UNCHANGED <<denon, readers, pc, op, stream, oplog, gp, last, nops>>

Next ==
    \/ SelectInput
    \/ VideoSelect
    \/ TextCommand
    \/ HeosCommand
    \/ GetPlayers
    \/ GetFirstPlayerId
    \/ PlayUrl
    \/ GpRead
    \/ PuRead
    \/ ShellLoop
    \/ ReaderLoop
    \/ DeviceSend
    \/ DeviceClose
    \/ DeviceReset

Spec == Init /\ [][Next]_vars

----------------------------------------------------------------------------
(* The two input commands driven with every variant of Input, the device   *)
(* dropping the connection between them.                                   *)
SelectAnyInput ==
    /\ CanBegin
    /\ \E input \in Input, up \in BOOLEAN :
          Begin(OpRec("select_input", NoneOpt, Some(input), FALSE),
                select_input(denon, conns, readers, up, input))

VideoSelectAny ==
    /\ CanBegin
    /\ \E input \in Input, up \in BOOLEAN :
          Begin(OpRec("video_select", NoneOpt, Some(input), FALSE),
                video_select(denon, conns, readers, up, input))

NextInputs ==
    \/ SelectAnyInput
    \/ VideoSelectAny
    \/ DeviceReset

SpecInputs == Init /\ [][NextInputs]_vars

----------------------------------------------------------------------------

(* Reading the state. *)
IsWrite(e) == e.ev \in {"write", "write_failed"}
IsRead(e) == e.ev \in {"read", "read_rest", "read_failed"}
Writes == SelectSeq(oplog, IsWrite)
Reads == SelectSeq(oplog, IsRead)
Has(k) == \E i \in 1..Len(oplog) : oplog[i].ev = k
ConnsOf(port) == {i \in 1..Len(conns) : conns[i].port = port}
Session(port) == IF port = PortText THEN denon.text_session ELSE denon.heos_session

(* The protocol an operation belongs to, by its port. *)
OpPort ==
    IF op.name \in {"select_input", "video_select", "text_command"} THEN PortText
    ELSE PortHeos

(* A message that is a Response envelope of the payload type T. *)
IsEnvelope(m, T) ==
    /\ m.kind = "json"
    /\ m.result \in {"success", "fail"}
    /\ m.payload = (IF T = "players" THEN "list" ELSE "null")

----------------------------------------------------------------------------
(* C1: for each protocol at most one TCP connection has ever been opened;  *)
(* the session is absent exactly while none has been, and from the first   *)
(* connect on it is that one connection, whatever happened on it since.    *)
C1_OneConnectionPerProtocol ==
    \A port \in {PortText, PortHeos} :
       /\ Cardinality(ConnsOf(port)) <= 1
       /\ Session(port) = NoneOpt <=> ConnsOf(port) = {}
       /\ Session(port) # NoneOpt => Session(port)[1] \in ConnsOf(port)

(* A second operation wrote to the text session after the peer had reset   *)
(* it: the write failed on the connection the first operation opened, and  *)
(* no connect was made.                                                    *)
C1_Witness ==
    /\ nops = 2
    /\ pc = "idle"
    /\ ~Has("connect")
    /\ \E i \in 1..Len(oplog) :
          /\ oplog[i].ev = "write_failed"
          /\ denon.text_session = Some(oplog[i].conn)

(* C2: a text operation touches only the text session and a HEOS operation *)
(* only the HEOS session: every connect, write, read and reader thread of  *)
(* an operation is on the port of its own protocol.                        *)
C2_IndependentProtocols ==
    \A i \in 1..Len(oplog) : oplog[i].port \in {0, OpPort}

(* C3: in the interactive shell every line read at the prompt is written,  *)
(* as read and with a newline, to the connection the reader thread of      *)
(* this invocation reads from.                                             *)
C3_LinesGoToTailedConnection ==
    \A i \in 1..Len(oplog) : \A j \in 1..Len(oplog) :
       (oplog[i].ev = "spawn" /\ oplog[j].ev = "readline")
          => /\ j < Len(oplog)
             /\ IsWrite(oplog[j + 1])
             /\ oplog[j + 1].line = oplog[j].line
             /\ oplog[j + 1].line.nl = "\n"
             /\ oplog[j + 1].conn = oplog[i].conn

(* C4: when the envelope get_players reads has result fail, get_players    *)
(* fails with ProtocolError, whatever the payload is.                      *)
C4_FailEnvelopeIsProtocolError ==
    (/\ gp.status # "none"
     /\ Reads # <<>>
     /\ Reads[1].ev = "read"
     /\ Reads[1].msg.kind = "json"
     /\ Reads[1].msg.result = "fail")
       => gp = Err("ProtocolError")

(* C5: get_players and play_url return successfully only from an envelope  *)
(* whose result is success.                                                *)
C5_PayloadOnlyOnSuccess ==
    /\ gp.status = "ok"
          => Reads # <<>> /\ Reads[1].ev = "read" /\ Reads[1].msg.result = "success"
    /\ (op.name = "play_url" /\ last.status = "ok")
          => /\ Reads # <<>>
             /\ Reads[Len(Reads)].ev = "read"
             /\ Reads[Len(Reads)].msg.result = "success"

(* play_url without a pid returned successfully: both envelopes it read    *)
(* had result success.                                                     *)
C5_Witness ==
    /\ op.name = "play_url"
    /\ op.pid = NoneOpt
    /\ last.status = "ok"
    /\ gp.status = "ok"
    /\ Len(Reads) = 2

(* C6: play_url without a pid writes heos://player/get_players, reads the  *)
(* reply, then writes heos://browse/play_stream with the pid of the first  *)
(* player of that reply and the url, and reads one more envelope; once     *)
(* both are written, it succeeds exactly if that second envelope's result  *)
(* is success.                                                             *)
IsIO(e) == IsWrite(e) \/ IsRead(e)
IO == SelectSeq(oplog, IsIO)

C6_PlayUrlResolvesThenPlays ==
    (op.name = "play_url" /\ op.pid = NoneOpt)
       => /\ Len(IO) <= 4
          /\ Len(IO) >= 1 => IsWrite(IO[1]) /\ IO[1].line = GetPlayersLine
          /\ Len(IO) >= 2 => IsRead(IO[2])
          /\ Len(IO) >= 3
                => /\ IsWrite(IO[3])
                   /\ IO[2].ev = "read"
                   /\ IO[2].msg.pids # <<>>
                   /\ IO[3].line = PlayStreamLine(Head(IO[2].msg.pids), op.arg[1])
          /\ Len(IO) = 4
                => /\ IsRead(IO[4])
                   /\ pc = "idle"
                   /\ (IO[4].ev = "read" /\ IsEnvelope(IO[4].msg, "unit"))
                         => (last.status = "ok" <=> IO[4].msg.result = "success")

(* play_url without a pid failed on the second envelope alone: the         *)
(* get_players reply had result success, the play_stream reply fail.       *)
C6_Witness ==
    /\ op.name = "play_url"
    /\ op.pid = NoneOpt
    /\ Len(IO) = 4
    /\ IO[2].msg.result = "success"
    /\ IO[3].line.pid = Some(7)
    /\ IO[4].msg.result = "fail"
    /\ last = Err("ProtocolError")

(* C7: a request's decoder takes at most the first message of the stream,  *)
(* and when it decodes an envelope it has taken exactly that message: the  *)
(* message behind it is left whole at the head of the stream, so after the *)
(* get_players reply of play_url the play_stream reply is still there.     *)
C7_DecoderTakesOneValue ==
    [][(pc \in {"gp_read", "pu_read"} /\ Len(Reads') > Len(Reads))
          => LET rx == conns[stream].rx
                 e == Reads'[Len(Reads) + 1]
                 T == IF pc = "gp_read" THEN "players" ELSE "unit"
             IN  /\ rx = <<>> => conns'[stream].rx = <<>>
                 /\ rx # <<>> => conns'[stream].rx \in {rx, Tail(rx)}
                 /\ (e.ev = "read" /\ IsEnvelope(e.msg, T))
                       => /\ rx # <<>>
                          /\ e.msg.id = Head(rx)
                          /\ conns'[stream].rx = Tail(rx)
                          /\ ~conns'[stream].partial]_vars

(* play_url has decoded the get_players reply and written play_stream, and *)
(* a message that came behind the reply is in the stream, whole.           *)
C7_Witness ==
    /\ op.name = "play_url"
    /\ pc = "pu_read"
    /\ Len(Reads) = 1
    /\ conns[stream].rx # <<>>
    /\ Head(conns[stream].rx) > Reads[1].msg.id
    /\ ~conns[stream].partial

(* C8: get_first_player_id returns the pid of the first player in the      *)
(* order of the device's reply, fails with NotFoundError on an empty list, *)
(* and fails as get_players failed otherwise.                              *)
C8_FirstPlayerId ==
    (op.name = "get_first_player_id" /\ pc = "idle")
       => /\ gp.status # "none"
          /\ gp.status = "err" => last = gp
          /\ gp.status = "ok"
                => /\ gp.value = Reads[1].msg.pids
                   /\ last = IF Reads[1].msg.pids = <<>>
                             THEN Err("NotFoundError")
                             ELSE Ok(<<Reads[1].msg.pids[1]>>)

(* get_first_player_id returned 7 from the reply listing players 7, 3.     *)
C8_Witness ==
    /\ op.name = "get_first_player_id"
    /\ pc = "idle"
    /\ Reads # <<>>
    /\ Reads[1].msg.pids = <<7, 3>>
    /\ last = Ok(<<7>>)

(* C9: a failed connect is the last thing its operation does: no second    *)
(* connect, no write on any session, the operation fails with              *)
(* ConnectionError and the session of that protocol stays absent.          *)
C9_ConnectFailureAborts ==
    \A i \in 1..Len(oplog) :
       oplog[i].ev = "connect_failed"
          => /\ i = Len(oplog)
             /\ pc = "idle"
             /\ last = Err("ConnectionError")
             /\ Session(oplog[i].port) = NoneOpt

(* select_input could not connect, after an operation that had opened the  *)
(* HEOS session.                                                           *)
C9_Witness ==
    /\ op.name = "select_input"
    /\ Has("connect_failed")
    /\ denon.heos_session # NoneOpt
    /\ denon.text_session = NoneOpt

(* C10: end of input at the prompt ends the interactive shell with         *)
(* success, whatever the reader thread is doing.                           *)
C10_EofReturnsOk ==
    (oplog # <<>> /\ oplog[Len(oplog)].ev = "readline_eof")
       => /\ pc = "idle"
          /\ last = Ok(<<>>)
          /\ readers # <<>>

(* The shell ended on end of input with its reader thread dead. *)
C10_Witness ==
    /\ oplog # <<>>
    /\ oplog[Len(oplog)].ev = "readline_eof"
    /\ readers[Len(readers)].status = "failed"
    /\ last = Ok(<<>>)

(* C11: the reader thread ends when its delimiter read finds the           *)
(* connection closed or broken: a reader that has read to the end of a     *)
(* closed connection is no longer running (and prints nothing more).       *)
C11_ReaderStopsAtEndOfStream ==
    \A i \in 1..Len(readers) :
       readers[i].eof => readers[i].status # "running"

(* The operation in progress is the interactive mode: text_command or      *)
(* heos_command called without an argument.                                *)
Interactive == op.name \in {"text_command", "heos_command"} /\ op.arg = NoneOpt
Spawned == {i \in 1..Len(oplog) : oplog[i].ev = "spawn"}
AtPrompt ==
    pc = "shell" \/ Has("readline") \/ Has("readline_eof") \/ Has("readline_failed")

(* C12: an operation spawns at most one reader thread; an interactive      *)
(* invocation that reaches its prompt has spawned exactly one; a           *)
(* single-shot operation spawns none, and the process that runs it as its  *)
(* one command has no background thread in any of its states.              *)
C12_OneReaderPerShell ==
    /\ Cardinality(Spawned) <= 1
    /\ AtPrompt => Interactive /\ Cardinality(Spawned) = 1
    /\ ~Interactive => Spawned = {}
    /\ nops <= 1 => Len(readers) = Cardinality(Spawned)
    /\ Len(readers) <= nops

C12_Witness ==
    /\ Interactive
    /\ pc = "shell"
    /\ Has("readline")
    /\ nops = 1
    /\ Len(readers) = 1

(* The writes of the change-event registration line by the operation in    *)
(* progress, and the operation that is meant to write it.                  *)
Subscribed == {i \in 1..Len(oplog) : IsWrite(oplog[i]) /\ oplog[i].line = SubscribeLine}
HeosShellSubscribing ==
    op.name = "heos_command" /\ op.arg = NoneOpt /\ op.subscribe

(* C13: the registration line is written at most once per operation, only  *)
(* by heos_command without a url and with subscribe set, to the HEOS       *)
(* session, before the reader is spawned and before any line is read from  *)
(* the user; and that operation does write it once it has its connection.  *)
C13_SubscribeOnceBeforeShell ==
    /\ Cardinality(Subscribed) <= 1
    /\ \A i \in Subscribed :
          /\ HeosShellSubscribing
          /\ oplog[i].port = PortHeos
          /\ denon.heos_session = Some(oplog[i].conn)
          /\ \A j \in 1..Len(oplog) :
                oplog[j].ev \in {"spawn", "readline", "readline_eof", "readline_failed"}
                   => i < j
    /\ (HeosShellSubscribing /\ denon.heos_session # NoneOpt) => Subscribed # {}

C13_Witness ==
    /\ HeosShellSubscribing
    /\ Subscribed # {}
    /\ Has("spawn")
    /\ Has("readline")
    /\ \E i \in 1..Len(oplog) : oplog[i].ev = "write" /\ oplog[i].line # SubscribeLine

(* C14: select_input(x) and video_select(x) put exactly one line on the    *)
(* text session, "SI" or "SV" followed by the token of x and the newline   *)
(* of writeln!, and do nothing else: no reply is read, no thread spawned,  *)
(* and the HEOS session is neither opened nor written.                     *)
C14_SelectWritesOneLine ==
    op.name \in {"select_input", "video_select"} =>
       /\ pc = "idle"
       /\ Reads = <<>>
       /\ ~Has("spawn")
       /\ \A i \in 1..Len(oplog) : oplog[i].port = PortText
       /\ Len(Writes) <= 1
       /\ \A i \in 1..Len(Writes) :
             /\ Writes[i].line =
                   [pre |-> IF op.name = "select_input" THEN "SI{}" ELSE "SV{}",
                    pid |-> NoneOpt, arg |-> to_protocol_name(op.arg[1]), nl |-> "\n"]
             /\ denon.text_session = Some(Writes[i].conn)
       /\ (last = Ok(<<>>)) <=> (Len(Writes) = 1 /\ Writes[1].ev = "write")
       /\ nops = 1 => denon.heos_session = NoneOpt /\ ConnsOf(PortHeos) = {}

C14_Witness ==
    /\ op = OpRec("select_input", NoneOpt, Some("MediaPlayer"), FALSE)
    /\ last = Ok(<<>>)
    /\ Len(Writes) = 1
    /\ Writes[1].line.pre = "SI{}"
    /\ Writes[1].line.arg = "MPLAY"

(* The token written by the input command in progress names its input and  *)
(* no other variant.                                                       *)
TokenNamesInput ==
    op.name \in {"select_input", "video_select"} =>
       \A i \in 1..Len(Writes) :
          /\ Writes[i].line.arg = to_protocol_name(op.arg[1])
          /\ \A a \in Input : to_protocol_name(a) = Writes[i].line.arg => a = op.arg[1]
TokensTotalInjective ==
    /\ \A a \in Input : to_protocol_name(a) \in STRING
    /\ \A a, b \in Input : to_protocol_name(a) = to_protocol_name(b) => a = b
    /\ to_protocol_name("MediaPlayer") = "MPLAY"

(* C15 as stated: Input has exactly twelve variants, and to_protocol_name  *)
(* maps each to a token, no two to the same one.                           *)
C15_TwelveVariants ==
    /\ Cardinality(Input) = 12
    /\ TokensTotalInjective
    /\ TokenNamesInput

(* C15, amended: Input has exactly thirteen variants; to_protocol_name     *)
(* maps every one of them to a token, no two to the same one, and the      *)
(* token an input command writes is the one of its input.                  *)
C15_ThirteenVariants ==
    /\ Cardinality(Input) = 13
    /\ Cardinality({to_protocol_name(a) : a \in Input}) = 13
    /\ TokensTotalInjective
    /\ TokenNamesInput

C15_Witness ==
    /\ op = OpRec("video_select", NoneOpt, Some("Aux2"), FALSE)
    /\ nops = 2
    /\ Len(Writes) = 1
    /\ Writes[1].ev = "write"
    /\ Writes[1].line.arg = "AUX2"

(* The wire string of a result, in lower case. *)
ToLower(s) ==
    CASE s \in {"Success", "SUCCESS"} -> "success"
      [] s \in {"Fail", "FAIL"} -> "fail"
      [] OTHER -> s

(* get_players has read, from its first byte on, an envelope with a list   *)
(* of players for payload.                                                 *)
GotPlayersEnvelope ==
    /\ gp.status # "none"
    /\ Reads # <<>>
    /\ Reads[1].ev = "read"
    /\ Reads[1].msg.kind = "json"
    /\ Reads[1].msg.payload = "list"

(* C16 as stated: the result of an envelope is decoded case-insensitively: *)
(* "Success" or "SUCCESS" is a success, "FAIL" a failure, not a decode     *)
(* error.                                                                  *)
C16_ResultAnyCase ==
    GotPlayersEnvelope =>
       /\ ToLower(Reads[1].msg.result) = "success" => gp = Ok(Reads[1].msg.pids)
       /\ ToLower(Reads[1].msg.result) = "fail" => gp = Err("ProtocolError")

(* C16, amended: the result is decoded from exactly the lower-case wire    *)
(* strings "success" and "fail"; spelt in any other case the envelope is a *)
(* decode error, as any other string is.                                   *)
C16_ResultExactLowercase ==
    GotPlayersEnvelope =>
       /\ Reads[1].msg.result = "success" => gp = Ok(Reads[1].msg.pids)
       /\ Reads[1].msg.result = "fail" => gp = Err("ProtocolError")
       /\ Reads[1].msg.result \notin {"success", "fail"} => gp = Err("DecodeError")

C16_Witness ==
    /\ GotPlayersEnvelope
    /\ op.name = "get_players"
    /\ Reads[1].msg.result = "Success"
    /\ last = Err("DecodeError")

(* The attempts of the operation in progress to connect. *)
Connects == SelectSeq(oplog, LAMBDA e : e.ev \in {"connect", "connect_failed"})

(* C17: play_url(None, url) whose player lookup failed (no connection, a   *)
(* failed write or read, a decode error, a fail envelope) or found no      *)
(* player has written no play_stream command and has returned that error   *)
(* (NotFoundError for the empty list), having tried nothing twice.         *)
C17_NoPlayWithoutPlayer ==
    (/\ op.name = "play_url"
     /\ op.pid = NoneOpt
     /\ gp.status = "err" \/ (gp.status = "ok" /\ gp.value = <<>>))
       => /\ pc = "idle"
          /\ \A i \in 1..Len(oplog) : oplog[i].line \in {NoLine, GetPlayersLine}
          /\ last = (IF gp.status = "err" THEN gp ELSE Err("NotFoundError"))
          /\ Len(Connects) <= 1
          /\ Len(Writes) <= 1
          /\ Len(Reads) <= 1

C17_Witness ==
    /\ op.name = "play_url"
    /\ op.pid = NoneOpt
    /\ gp = Ok(<<>>)
    /\ last = Err("NotFoundError")
    /\ Len(Writes) = 1
    /\ Len(Reads) = 1

(* C18: play_url(Some(pid), url) never writes the get_players command; it  *)
(* writes one command, play_stream with the caller's pid and url, reads    *)
(* one envelope, and fails with ProtocolError exactly when the result of   *)
(* that envelope is fail.                                                  *)
C18_PlayUrlWithPid ==
    (op.name = "play_url" /\ op.pid # NoneOpt) =>
       /\ \A i \in 1..Len(oplog) : oplog[i].line # GetPlayersLine
       /\ Len(Writes) <= 1
       /\ \A i \in 1..Len(Writes) : Writes[i].line = PlayStreamLine(op.pid[1], op.arg[1])
       /\ Len(Reads) <= 1
       /\ (pc = "idle" /\ Reads # <<>> /\ Reads[1].ev = "read"
             /\ Reads[1].msg.kind = "json")
            => (last = Err("ProtocolError") <=> Reads[1].msg.result = "fail")

(* C19: once the reader thread is spawned the foreground never reads: all  *)
(* it does on a connection is write, and all its writes go to one          *)
(* connection; and in the process of one interactive command no connection *)
(* has two reader threads. (The reader thread owns only the BufReader over *)
(* its clone and the printer: it has nothing to write with.)               *)
C19_DisjointDirections ==
    /\ \A i, j \in 1..Len(oplog) :
          (oplog[i].ev = "spawn" /\ i < j) =>
             /\ ~IsRead(oplog[j])
             /\ \A k \in 1..Len(oplog) :
                   (i < k /\ IsWrite(oplog[j]) /\ IsWrite(oplog[k]))
                      => oplog[j].conn = oplog[k].conn
    /\ nops <= 1 =>
          \A i, j \in 1..Len(readers) : readers[i].conn = readers[j].conn => i = j

C19_Witness ==
    /\ nops = 1
    /\ pc = "shell"
    /\ \E i, j \in 1..Len(oplog) : oplog[i].ev = "spawn" /\ i < j /\ oplog[j].ev = "write"
    /\ Len(readers) = 1
    /\ readers[1].printed > 0
    /\ readers[1].status = "running"

(* A reader thread has ended with an error. *)
ReaderFailed == \E i \in 1..Len(readers) : readers[i].status = "failed"

(* C20: the failure of a reader thread changes nothing for the foreground: *)
(* the step in which the thread fails leaves the operation as it is, and   *)
(* from then on the shell stays at its prompt, forwarding lines, until the *)
(* foreground itself ends it: with success on end of input, with the       *)
(* error of its own readline or write otherwise.                           *)
C20_ReaderFailureNotSurfaced ==
    [][ /\ (~ReaderFailed /\ ReaderFailed') => UNCHANGED <<pc, last, oplog, stream>>
        /\ (pc = "shell" /\ ReaderFailed) =>
              \/ pc' = "shell" /\ last' = NoResult
              \/ /\ pc' = "idle"
                 /\ Len(oplog') > Len(oplog)
                 /\ LET e == oplog'[Len(oplog')] IN
                    \/ e.ev = "readline_eof" /\ last' = Ok(<<>>)
                    \/ e.ev = "readline_failed" /\ last' = Err("ReadlineError")
                    \/ e.ev = "write_failed" /\ last' = Err("ConnectionError")
      ]_vars

C20_Witness ==
    /\ Interactive
    /\ nops = 1
    /\ ReaderFailed
    /\ conns[readers[1].conn].peer = "open"
    /\ pc = "shell"
    /\ oplog[Len(oplog)].ev = "write"
    /\ last = NoResult

====
